---------------------------- MODULE Spec2Model ----------------------------
(***************************************************************************)
(* Model of final_bilibili_audio_v12(packed-w).py: a supervisor that       *)
(* chains streamlink | ffmpeg, preloads ffmpeg's stdout for PRELOAD_TIME,  *)
(* relays it over a single-threaded HTTPServer to PotPlayer, and cleans up *)
(* when the player or ffmpeg exits or a signal sets shutdown_event.        *)
(*                                                                         *)
(* Threads: the main thread (pc), the server thread running run_server     *)
(* and, inside serve_forever, the request handler do_GET (srv).  HTTPServer*)
(* is not a threading server, so handlers run one at a time on the server  *)
(* thread.  The environment is the three child processes, the HTTP         *)
(* clients and the operating system's signals.                             *)
(*                                                                         *)
(* ffmpeg's stdout is a pipe opened with bufsize=0: read(n) blocks until   *)
(* at least one byte is available or the write end is closed, and returns  *)
(* b"" only at end of file.  Bytes of the stream are modelled by their     *)
(* position 1, 2, 3, ... so reordering and duplication are visible.        *)
(***************************************************************************)
EXTENDS Integers, Sequences, FiniteSets, TLC

(* ---------------------------- bounds ----------------------------------- *)
MaxStream == 3      \* bytes ffmpeg emits before it falls silent
MaxConns  == 2      \* HTTP connections made during one run
MaxBacklog == 1     \* connections waiting in the listen queue at once

(* ------------------------ program constants ---------------------------- *)
PRELOAD_TIME == 2   \* warmup, in clock quanta; every sleep(0.05) of the fill
                    \* loop advances the clock by at least one quantum
PRELOAD_READ == 2   \* ffmpeg_proc.stdout.read(8192), in units of 4096 bytes
STREAM_READ  == 1   \* ffmpeg_proc.stdout.read(4096), in units of 4096 bytes
ERROR_PAGE   == 0   \* the HTML error document send_error writes as the body

Min(a, b) == IF a < b THEN a ELSE b

(* i+1 .. j as a sequence: the bytes of the stream between two positions *)
Range(i, j) == [k \in 1..(j - i) |-> i + k]

(* --------------------------- file system ------------------------------- *)
Names == {"streamlink", "ffmpeg", "PotPlayerMini64"}

PathOf(d, n, e) == [dir |-> d, name |-> n, exe |-> e]

(* The hosts the program is started on: what PATH resolves and which of    *)
(* the candidate files next to the program exist.  On the first everything *)
(* is found, on the second ffmpeg is missing, on the third streamlink and  *)
(* the player are.                                                         *)
Environments ==
  { [on_path |-> {"streamlink"},
     files   |-> {PathOf("TOOLS", "ffmpeg", FALSE),
                  PathOf("BASE", "PotPlayerMini64", TRUE)}],
    [on_path |-> {"streamlink", "PotPlayerMini64"},
     files   |-> {}],
    [on_path |-> {"ffmpeg"},
     files   |-> {}] }

isfile(e, p) ==
  \/ p \in e.files
  \/ p.dir = "PATH" /\ p.exe = FALSE /\ p.name \in e.on_path

(* shutil.which *)
which(e, name) ==
  IF name \in e.on_path THEN PathOf("PATH", name, FALSE) ELSE PathOf("", "", FALSE)

candidates(name) ==
  << PathOf("BASE", name, TRUE), PathOf("BASE", name, FALSE),
     PathOf("TOOLS", name, TRUE), PathOf("TOOLS", name, FALSE) >>

RECURSIVE FirstFile(_, _, _, _)
FirstFile(e, cs, i, default) ==
  IF i > Len(cs) THEN default
  ELSE IF isfile(e, cs[i]) THEN cs[i]
  ELSE FirstFile(e, cs, i + 1, default)

find_executable(e, name, default_name) ==
  IF which(e, name).name # ""
  THEN which(e, name)
  ELSE FirstFile(e, candidates(name), 1, PathOf("", default_name, FALSE))

(* The executable exists in one of the search locations. *)
Locatable(e, name) ==
  \/ name \in e.on_path
  \/ \E i \in 1..4 : isfile(e, candidates(name)[i])

(* What subprocess.Popen can start: a bare name goes through PATH. *)
CanExec(e, p) == IF p.dir = "" THEN p.name \in e.on_path ELSE isfile(e, p)

BareStreamlink == PathOf("", "streamlink", FALSE)

(* the two dependency tests at the head of main *)
FfmpegCheck(e, p) ==
  isfile(e, p) \/ (p.dir = "" /\ p.name \in {"ffmpeg", "avconv"})

PotplayerCheck(e, p) ==
  isfile(e, p) \/ p.name = "PotPlayerMini64"     \* 'potplayer' in path.lower()

(* ------------------------------ state ---------------------------------- *)
VARIABLES
  env,              \* the host: PATH and files next to the program
  FFMPEG_PATH, POTPLAYER_PATH,
  pc,               \* position of the main thread
  report,           \* the log.critical message main gave and the executable
                    \* it names; msg = "" if there was none
  streamlink_proc, ffmpeg_proc, potplayer_proc,   \* "None", "running", "exited"
  sl_stdout_open,   \* the supervisor's copy of streamlink_proc.stdout is open
  shutdown_event,
  preload_buffer, audio_buffer,
  elapsed,          \* time.time() - start_time, capped at PRELOAD_TIME
  produced, rdpos,  \* bytes ffmpeg wrote to / the program read from its stdout
  ff_closed,        \* ffmpeg has closed its stdout while still running
  httpd,            \* "None" or "bound"
  srv,              \* position of the server thread and of its handler
  shutdown_request, \* HTTPServer.__shutdown_request
  backlog,          \* paths of connections waiting to be accepted
  nconn,            \* connections made so far
  conn_no,          \* connections accepted so far
  active,           \* do_GET handlers in progress
  client_open,      \* the client of the current connection still listens
  req_path, status, body, preload_data,   \* the current (or last) response
  h_result,         \* what its handler came to: "", "retry" (an empty read,
                    \* slept and went on), "done" or "client_gone"
  published,        \* the preload publish has run
  cleaned,          \* cleanup() has returned
  fate              \* what cleanup did to the child it handled last: ""
                    \* (left alone), "graceful", "timeout_kill", "error_kill"

vars == << env, FFMPEG_PATH, POTPLAYER_PATH, pc, report, streamlink_proc,
           ffmpeg_proc, potplayer_proc, sl_stdout_open, shutdown_event,
           preload_buffer, audio_buffer, elapsed, produced, rdpos, ff_closed,
           httpd, srv, shutdown_request, backlog, nconn, conn_no, active,
           client_open, req_path,
           status, body, preload_data, h_result, published, cleaned, fate >>

procVars == << streamlink_proc, ffmpeg_proc, potplayer_proc, sl_stdout_open >>
envVars  == << env, FFMPEG_PATH, POTPLAYER_PATH >>
httpVars == << httpd, srv, shutdown_request >>
connVars == << backlog, nconn, conn_no, active, client_open, req_path, status,
               body, preload_data, h_result >>
bufVars  == << preload_buffer, audio_buffer, elapsed, published >>
pipeVars == << produced, rdpos, ff_closed >>
cleanVars == << cleaned, fate >>

Paths == {"/", "/audio.aac", "/other"}

(* self.path not in ["/", "/audio.aac"] *)
Recognised_All == Paths
Recognised == {"/", "/audio.aac"}

Report(m, x) == [msg |-> m, exe |-> x]
NoReport == Report("", "")

Init ==
  /\ env \in Environments
  /\ FFMPEG_PATH = find_executable(env, "ffmpeg", "ffmpeg")
  /\ POTPLAYER_PATH = find_executable(env, "PotPlayerMini64", "PotPlayerMini64")
  /\ pc = "main"
  /\ report = NoReport
  /\ streamlink_proc = "None" /\ ffmpeg_proc = "None" /\ potplayer_proc = "None"
  /\ sl_stdout_open = FALSE
  /\ shutdown_event = FALSE
  /\ preload_buffer = << >> /\ audio_buffer = << >>
  /\ elapsed = 0
  /\ produced = 0 /\ rdpos = 0 /\ ff_closed = FALSE
  /\ httpd = "None" /\ srv = "idle" /\ shutdown_request = FALSE
  /\ backlog = << >> /\ nconn = 0 /\ conn_no = 0 /\ active = 0
  /\ client_open = FALSE
  /\ req_path = "" /\ status = 0 /\ body = << >> /\ preload_data = << >>
  /\ h_result = ""
  /\ published = FALSE
  /\ cleaned = FALSE
  /\ fate = ""

(* The Python process is alive: main has not returned. *)
Alive == pc # "returned"


Avail == produced - rdpos

(* read() on ffmpeg's stdout returns: data is waiting, or the write end is *)
(* closed (end of file).  Otherwise the caller stays blocked.              *)
ReadReturns == Avail > 0 \/ ff_closed \/ ffmpeg_proc = "exited"

(* ------------------------- main thread: main() ------------------------- *)
CheckDependencies ==
  /\ pc = "main"
  /\ IF ~FfmpegCheck(env, FFMPEG_PATH)
       THEN report' = Report("ffmpeg not found", "ffmpeg") /\ pc' = "returned"
     ELSE IF ~PotplayerCheck(env, POTPLAYER_PATH)
       THEN report' = Report("PotPlayer not found", "PotPlayerMini64") /\ pc' = "returned"
     ELSE report' = report /\ pc' = "spawn_streamlink"
  /\ UNCHANGED << envVars, procVars, shutdown_event, bufVars, pipeVars,
                  httpVars, connVars, cleanVars >>

(* streamlink_proc = subprocess.Popen(streamlink_cmd, ...).  On an         *)
(* exception main logs, waits for Enter in input() and returns; the wait   *)
(* changes nothing and is part of the failing step.                        *)
SpawnStreamlink ==
  /\ pc = "spawn_streamlink"
  /\ \E os_ok \in BOOLEAN :
       IF os_ok /\ CanExec(env, BareStreamlink)
         THEN /\ streamlink_proc' = "running"
              /\ sl_stdout_open' = TRUE
              /\ pc' = "spawn_ffmpeg"
              /\ report' = report
         ELSE /\ report' = Report("pipeline start failed", "streamlink")
              /\ pc' = "returned"
              /\ UNCHANGED << streamlink_proc, sl_stdout_open >>
  /\ UNCHANGED << envVars, ffmpeg_proc, potplayer_proc, shutdown_event,
                  bufVars, pipeVars, httpVars, connVars, cleanVars >>

(* streamlink_proc.stdout.close(): the supervisor's copy of the pipe       *)
(* between streamlink and ffmpeg is open no longer                         *)
AfterWiring_Leaked == TRUE
AfterWiring == FALSE

(* ffmpeg_proc = subprocess.Popen(ffmpeg_cmd, stdin=streamlink_proc.stdout) *)
(* followed by streamlink_proc.stdout.close()                               *)
SpawnFfmpeg ==
  /\ pc = "spawn_ffmpeg"
  /\ \E os_ok \in BOOLEAN :
       IF os_ok /\ CanExec(env, FFMPEG_PATH)
         THEN /\ ffmpeg_proc' = "running"
              /\ sl_stdout_open' = AfterWiring
              /\ pc' = "preload_init"
              /\ report' = report
         ELSE /\ report' = Report("pipeline start failed", "ffmpeg")
              /\ pc' = "returned"
              /\ UNCHANGED << ffmpeg_proc, sl_stdout_open >>
  /\ UNCHANGED << envVars, streamlink_proc, potplayer_proc, shutdown_event,
                  bufVars, pipeVars, httpVars, connVars, cleanVars >>

(* preload_buffer = bytearray(); start_time = time.time(); the stderr log  *)
(* thread is started.  time.time() is the wall clock, so the first loop    *)
(* test may see any amount of time passed, the whole warmup included.      *)
PreloadInit_ServerFirst ==
  /\ pc = "preload_init"
  /\ preload_buffer' = << >>
  /\ \E d \in 0..PRELOAD_TIME : elapsed' = d
  /\ pc' = "preload_test"
  /\ srv' = "bind"
  /\ UNCHANGED << envVars, report, procVars, shutdown_event, audio_buffer,
                  published, pipeVars, httpd, shutdown_request, connVars,
                  cleanVars >>

PreloadInit ==
  /\ pc = "preload_init"
  /\ preload_buffer' = << >>
  /\ \E d \in 0..PRELOAD_TIME : elapsed' = d
  /\ pc' = "preload_test"
  /\ UNCHANGED << envVars, report, procVars, shutdown_event, audio_buffer,
                  published, pipeVars, httpVars, connVars, cleanVars >>

(* while time.time() - start_time < PRELOAD_TIME:                          *)
(*     if shutdown_event.is_set(): return                                  *)
PreloadTest ==
  /\ pc = "preload_test"
  /\ pc' = IF elapsed >= PRELOAD_TIME THEN "publish"
           ELSE IF shutdown_event THEN "returned"
           ELSE "preload_read"
  /\ UNCHANGED << envVars, report, procVars, shutdown_event, bufVars,
                  pipeVars, httpVars, connVars, cleanVars >>

(* preload_buffer.extend(data) *)
Extend_Replace(buf, data) == data
Extend(buf, data) == buf \o data

PreloadRead_Shared ==
  /\ pc = "preload_read"
  /\ ReadReturns
  /\ LET n == Min(PRELOAD_READ, Avail) IN
       /\ preload_buffer' = preload_buffer \o Range(rdpos, rdpos + n)
       /\ audio_buffer' = preload_buffer \o Range(rdpos, rdpos + n)
       /\ rdpos' = rdpos + n
  /\ \E d \in 1..PRELOAD_TIME : elapsed' = Min(elapsed + d, PRELOAD_TIME)
  /\ pc' = "preload_test"
  /\ UNCHANGED << envVars, report, procVars, shutdown_event, published,
                  produced, ff_closed, httpVars, connVars, cleanVars >>

(* data = ffmpeg_proc.stdout.read(8192); if data: extend; time.sleep(0.05) *)
PreloadRead ==
  /\ pc = "preload_read"
  /\ ReadReturns
  /\ LET n == Min(PRELOAD_READ, Avail) IN
       /\ preload_buffer' = IF n > 0
                             THEN Extend(preload_buffer, Range(rdpos, rdpos + n))
                             ELSE preload_buffer
       /\ rdpos' = rdpos + n
  /\ \E d \in 1..PRELOAD_TIME : elapsed' = Min(elapsed + d, PRELOAD_TIME)
  /\ pc' = "preload_test"
  /\ UNCHANGED << envVars, report, procVars, shutdown_event, audio_buffer,
                  published, produced, ff_closed, httpVars, connVars,
                  cleanVars >>

(* with buffer_lock: audio_buffer[:] = preload_buffer *)
Publish ==
  /\ pc = "publish"
  /\ audio_buffer' = preload_buffer
  /\ published' = TRUE
  /\ pc' = "start_server"
  /\ UNCHANGED << envVars, report, procVars, shutdown_event, preload_buffer,
                  elapsed, pipeVars, httpVars, connVars, cleanVars >>

(* server_thread.start(); time.sleep(0.5) *)
StartServer ==
  /\ pc = "start_server"
  /\ srv' = "bind"
  /\ pc' = "spawn_player"
  /\ UNCHANGED << envVars, report, procVars, shutdown_event, bufVars,
                  pipeVars, httpd, shutdown_request, connVars, cleanVars >>

(* potplayer_proc = subprocess.Popen([POTPLAYER_PATH, AUDIO_URL]); on an   *)
(* exception: cleanup(), then return                                       *)
SpawnPlayer ==
  /\ pc = "spawn_player"
  /\ \E os_ok \in BOOLEAN :
       IF os_ok /\ CanExec(env, POTPLAYER_PATH)
         THEN /\ potplayer_proc' = "running"
              /\ pc' = "monitor"
              /\ report' = report
         ELSE /\ report' = Report("PotPlayer start failed", "PotPlayerMini64")
              /\ pc' = "cl_set"
              /\ UNCHANGED potplayer_proc
  /\ UNCHANGED << envVars, streamlink_proc, ffmpeg_proc, sl_stdout_open,
                  shutdown_event, bufVars, pipeVars, httpVars, connVars,
                  cleanVars >>

(* The monitor loop leaves (break, or its while test) and runs the finally *)
(* clause; while none of the three conditions holds it sleeps and retries. *)
Monitor ==
  /\ pc = "monitor"
  /\ shutdown_event \/ potplayer_proc # "running" \/ ffmpeg_proc # "running"
  /\ pc' = "cl_set"
  /\ UNCHANGED << envVars, report, procVars, shutdown_event, bufVars,
                  pipeVars, httpVars, connVars, cleanVars >>

(* ------------------------------ cleanup() ------------------------------ *)
CleanupSet_Toggle ==
  /\ pc = "cl_set"
  /\ shutdown_event' = ~shutdown_event
  /\ pc' = "cl_httpd"
  /\ UNCHANGED << envVars, report, procVars, bufVars, pipeVars, httpVars,
                  connVars, cleanVars >>

(* log.info(...); shutdown_event.set() *)
CleanupSet ==
  /\ pc = "cl_set"
  /\ shutdown_event' = TRUE
  /\ pc' = "cl_httpd"
  /\ UNCHANGED << envVars, report, procVars, bufVars, pipeVars, httpVars,
                  connVars, cleanVars >>

(* if httpd: httpd.shutdown()  -- sets __shutdown_request, then waits *)
CleanupHttpd ==
  /\ pc = "cl_httpd"
  /\ IF httpd # "None"
       THEN shutdown_request' = TRUE /\ pc' = "cl_wait"
       ELSE shutdown_request' = shutdown_request /\ pc' = "cl_ffmpeg"
  /\ UNCHANGED << envVars, report, procVars, shutdown_event, bufVars,
                  pipeVars, httpd, srv, connVars, cleanVars >>

(* ... self.__is_shut_down.wait(): blocks until serve_forever has left *)
CleanupWait ==
  /\ pc = "cl_wait"
  /\ srv = "stopped"
  /\ pc' = "cl_ffmpeg"
  /\ UNCHANGED << envVars, report, procVars, shutdown_event, bufVars,
                  pipeVars, httpVars, connVars, cleanVars >>

(* if proc and proc.poll() is None:                                        *)
(*     try: proc.terminate(); proc.wait(timeout=2)                         *)
(*     except: try: proc.kill() except: pass                               *)
(* terminate() may raise, the child may or may not exit within the two     *)
(* seconds, kill() may raise.  Either way the child is gone afterwards: a  *)
(* child that ignores terminate() is killed, kill() cannot be ignored, and *)
(* a kill() that raises found the child already gone.                      *)
Terminated(proc) == IF proc = "running" THEN "exited" ELSE proc

Fate(proc, term_ok, in_grace) ==
  IF proc # "running" THEN ""
  ELSE IF ~term_ok THEN "error_kill"
  ELSE IF in_grace THEN "graceful"
  ELSE "timeout_kill"

(* where cleanup goes after one child: the bare excepts swallow every      *)
(* exception, so on to the next child                                      *)
NextStage_Propagates(next, f, kill_ok) ==
  IF f \in {"timeout_kill", "error_kill"} /\ ~kill_ok THEN "returned" ELSE next
NextStage(next, f, kill_ok) == next

CleanupFfmpeg ==
  /\ pc = "cl_ffmpeg"
  /\ ffmpeg_proc' = Terminated(ffmpeg_proc)
  /\ \E term_ok, in_grace, kill_ok \in BOOLEAN :
       LET f == Fate(ffmpeg_proc, term_ok, in_grace) IN
         /\ fate' = f
         /\ pc' = NextStage("cl_streamlink", f, kill_ok)
  /\ UNCHANGED << envVars, report, streamlink_proc, potplayer_proc,
                  sl_stdout_open, shutdown_event, bufVars, pipeVars, httpVars,
                  connVars, cleaned >>

CleanupStreamlink ==
  /\ pc = "cl_streamlink"
  /\ streamlink_proc' = Terminated(streamlink_proc)
  /\ \E term_ok, in_grace, kill_ok \in BOOLEAN :
       LET f == Fate(streamlink_proc, term_ok, in_grace) IN
         /\ fate' = f
         /\ pc' = NextStage("cl_potplayer", f, kill_ok)
  /\ UNCHANGED << envVars, report, ffmpeg_proc, potplayer_proc,
                  sl_stdout_open, shutdown_event, bufVars, pipeVars, httpVars,
                  connVars, cleaned >>

(* the last child; cleanup() returns and so does main *)
CleanupPotplayer ==
  /\ pc = "cl_potplayer"
  /\ potplayer_proc' = Terminated(potplayer_proc)
  /\ \E term_ok, in_grace, kill_ok \in BOOLEAN :
       LET f == Fate(potplayer_proc, term_ok, in_grace) IN
         /\ fate' = f
         /\ pc' = NextStage("returned", f, kill_ok)
  /\ cleaned' = TRUE
  /\ UNCHANGED << envVars, report, streamlink_proc, ffmpeg_proc,
                  sl_stdout_open, shutdown_event, bufVars, pipeVars, httpVars,
                  connVars >>

MainStep ==
  \/ CheckDependencies \/ SpawnStreamlink \/ SpawnFfmpeg
  \/ PreloadInit \/ PreloadTest \/ PreloadRead \/ Publish
  \/ StartServer \/ SpawnPlayer \/ Monitor
  \/ CleanupSet \/ CleanupHttpd \/ CleanupWait
  \/ CleanupFfmpeg \/ CleanupStreamlink \/ CleanupPotplayer

(* --------------------- server thread: run_server ----------------------- *)
(* httpd = HTTPServer(('127.0.0.1', HTTP_PORT), AudioStreamHandler); an    *)
(* exception (port in use) is logged and the thread ends.                  *)
RunServerBind ==
  /\ Alive
  /\ srv = "bind"
  /\ \E bind_ok \in BOOLEAN :
       IF bind_ok THEN httpd' = "bound" /\ srv' = "serving"
                  ELSE httpd' = httpd /\ srv' = "failed"
  /\ UNCHANGED << envVars, pc, report, procVars, shutdown_event, bufVars,
                  pipeVars, shutdown_request, connVars, cleanVars >>

(* serve_forever sees __shutdown_request, leaves its loop, resets the flag *)
(* and sets __is_shut_down.                                                *)
ServeStop ==
  /\ Alive
  /\ srv = "serving"
  /\ shutdown_request
  /\ srv' = "stopped"
  /\ shutdown_request' = FALSE
  /\ UNCHANGED << envVars, pc, report, procVars, shutdown_event, bufVars,
                  pipeVars, httpd, connVars, cleanVars >>

(* HTTPServer handles one request at a time: serve_forever takes the next *)
(* connection only when no handler is running on the server thread.        *)
CanAccept_Threading == srv \in {"serving", "h_snapshot", "h_loop", "h_read"}
CanAccept == srv = "serving"

(* serve_forever accepts the next connection and calls do_GET: the path    *)
(* test, then send_error(404) or the 200 response headers.                 *)
Accept ==
  /\ Alive
  /\ CanAccept
  /\ ~shutdown_request
  /\ backlog # << >>
  /\ backlog' = Tail(backlog)
  /\ conn_no' = conn_no + 1
  /\ req_path' = Head(backlog)
  /\ preload_data' = << >>
  /\ IF Head(backlog) \notin Recognised
       THEN /\ status' = 404
            /\ body' = << ERROR_PAGE >>
            /\ client_open' = FALSE
            /\ h_result' = "done"
            /\ active' = active
            /\ srv' = srv
       ELSE /\ status' = 200
            /\ body' = << >>
            /\ client_open' = TRUE
            /\ h_result' = ""
            /\ active' = active + 1
            /\ srv' = "h_snapshot"
  /\ UNCHANGED << envVars, pc, report, procVars, shutdown_event, bufVars,
                  pipeVars, httpd, shutdown_request, nconn, cleanVars >>

(* where the server thread is after a write to a client that has gone:     *)
(* the except clauses end the handler, serve_forever goes on               *)
AfterClientGone_Dead == "failed"
AfterClientGone == "serving"

(* with buffer_lock: preload_data = bytes(audio_buffer); then the write of *)
(* preload_data.  A write to a client that has gone raises, and the outer  *)
(* except ends the handler.                                                *)
HandlerPreload ==
  /\ Alive
  /\ srv = "h_snapshot"
  /\ preload_data' = audio_buffer
  /\ IF audio_buffer # << >> /\ ~client_open
       THEN /\ srv' = AfterClientGone
            /\ h_result' = "client_gone"
            /\ active' = active - 1
            /\ UNCHANGED << body, client_open >>
       ELSE /\ body' = body \o audio_buffer
            /\ srv' = "h_loop"
            /\ UNCHANGED << client_open, h_result, active >>
  /\ UNCHANGED << envVars, pc, report, procVars, shutdown_event, bufVars,
                  pipeVars, httpd, shutdown_request, backlog, nconn, conn_no,
                  req_path, status, cleanVars >>

(* while not shutdown_event.is_set():                                      *)
(*     if ffmpeg_proc is None or ffmpeg_proc.poll() is not None: break     *)
HandlerLoopTest ==
  /\ Alive
  /\ srv = "h_loop"
  /\ IF shutdown_event \/ ffmpeg_proc # "running"
       THEN /\ srv' = "serving"
            /\ client_open' = FALSE
            /\ h_result' = "done"
            /\ active' = active - 1
       ELSE /\ srv' = "h_read"
            /\ UNCHANGED << client_open, h_result, active >>
  /\ UNCHANGED << envVars, pc, report, procVars, shutdown_event, bufVars,
                  pipeVars, httpd, shutdown_request, backlog, nconn, conn_no,
                  req_path, status, body, preload_data, cleanVars >>

(* the n bytes a read takes from the pipe, at the shared read position *)
Chunk_OffByOne(n) == Range(rdpos - 1, rdpos - 1 + n)
Chunk(n) == Range(rdpos, rdpos + n)

(* where the handler goes after an empty read: time.sleep(0.01), then the  *)
(* loop test again                                                         *)
AfterEmptyRead_Eof == "serving"
AfterEmptyRead == "h_loop"

(* data = ffmpeg_proc.stdout.read(4096); if data: write and flush, else    *)
(* sleep(0.01).  A failed write (client gone) breaks out of the loop.      *)
HandlerRead ==
  /\ Alive
  /\ srv = "h_read"
  /\ ReadReturns
  /\ LET n == Min(STREAM_READ, Avail) IN
       /\ rdpos' = rdpos + n
       /\ IF n = 0
            THEN /\ srv' = AfterEmptyRead
                 /\ h_result' = IF AfterEmptyRead = "h_loop" THEN "retry"
                                ELSE "done"
                 /\ active' = IF AfterEmptyRead = "h_loop" THEN active
                              ELSE active - 1
                 /\ UNCHANGED << body, client_open >>
            ELSE IF ~client_open
            THEN /\ srv' = AfterClientGone
                 /\ h_result' = "client_gone"
                 /\ active' = active - 1
                 /\ UNCHANGED << body, client_open >>
            ELSE /\ body' = body \o Chunk(n)
                 /\ srv' = "h_loop"
                 /\ UNCHANGED << client_open, h_result, active >>
  /\ UNCHANGED << envVars, pc, report, procVars, shutdown_event, bufVars,
                  produced, ff_closed, httpd, shutdown_request, backlog, nconn,
                  conn_no, req_path, status, preload_data, cleanVars >>

ServerStep ==
  \/ RunServerBind \/ ServeStop \/ Accept
  \/ HandlerPreload \/ HandlerLoopTest \/ HandlerRead

(* ---------------------------- environment ------------------------------ *)
(* SIGINT / SIGTERM: lambda s, f: shutdown_event.set() *)
Signal ==
  /\ Alive
  /\ ~shutdown_event
  /\ shutdown_event' = TRUE
  /\ UNCHANGED << envVars, pc, report, procVars, bufVars, pipeVars, httpVars,
                  connVars, cleanVars >>

(* a client (the player or any local program) connects to the port and    *)
(* waits in the listen queue (socketserver's request_queue_size) until     *)
(* serve_forever accepts it                                                *)
Connect ==
  /\ Alive
  /\ httpd = "bound"
  /\ Len(backlog) < MaxBacklog
  /\ nconn < MaxConns
  /\ \E p \in Paths : backlog' = Append(backlog, p)
  /\ nconn' = nconn + 1
  /\ UNCHANGED << envVars, pc, report, procVars, shutdown_event, bufVars,
                  pipeVars, httpVars, conn_no, active, client_open, req_path,
                  status, body, preload_data, h_result, cleanVars >>

(* the client of the connection being served goes away *)
Disconnect ==
  /\ Alive
  /\ srv \in {"h_snapshot", "h_loop", "h_read"}
  /\ client_open
  /\ client_open' = FALSE
  /\ UNCHANGED << envVars, pc, report, procVars, shutdown_event, bufVars,
                  pipeVars, httpVars, backlog, nconn, conn_no, active,
                  req_path, status, body, preload_data, h_result, cleanVars >>

(* ffmpeg writes the next byte of its output to the stdout pipe *)
FfmpegProduce ==
  /\ Alive
  /\ ffmpeg_proc = "running"
  /\ ~ff_closed
  /\ produced < MaxStream
  /\ produced' = produced + 1
  /\ UNCHANGED << envVars, pc, report, procVars, shutdown_event, bufVars,
                  rdpos, ff_closed, httpVars, connVars, cleanVars >>

(* ffmpeg closes its stdout before it has exited: readers see end of file  *)
(* while poll() still returns None                                         *)
FfmpegCloseStdout ==
  /\ Alive
  /\ ffmpeg_proc = "running"
  /\ ~ff_closed
  /\ ff_closed' = TRUE
  /\ UNCHANGED << envVars, pc, report, procVars, shutdown_event, bufVars,
                  produced, rdpos, httpVars, connVars, cleanVars >>

StreamlinkExit ==
  /\ Alive
  /\ streamlink_proc = "running"
  /\ streamlink_proc' = "exited"
  /\ UNCHANGED << envVars, pc, report, ffmpeg_proc, potplayer_proc,
                  sl_stdout_open, shutdown_event, bufVars, pipeVars, httpVars,
                  connVars, cleanVars >>

FfmpegExit ==
  /\ Alive
  /\ ffmpeg_proc = "running"
  /\ ffmpeg_proc' = "exited"
  /\ UNCHANGED << envVars, pc, report, streamlink_proc, potplayer_proc,
                  sl_stdout_open, shutdown_event, bufVars, pipeVars, httpVars,
                  connVars, cleanVars >>

PlayerExit ==
  /\ Alive
  /\ potplayer_proc = "running"
  /\ potplayer_proc' = "exited"
  /\ UNCHANGED << envVars, pc, report, streamlink_proc, ffmpeg_proc,
                  sl_stdout_open, shutdown_event, bufVars, pipeVars, httpVars,
                  connVars, cleanVars >>

EnvStep ==
  \/ Signal \/ Connect \/ Disconnect \/ FfmpegProduce \/ FfmpegCloseStdout
  \/ StreamlinkExit \/ FfmpegExit \/ PlayerExit

Next == MainStep \/ ServerStep \/ EnvStep

Spec == Init /\ [][Next]_vars

(* ffmpeg's input has ended: streamlink is gone and the supervisor holds   *)
(* no copy of the pipe between them, or the whole stream has been emitted. *)
InputEnded ==
  \/ streamlink_proc = "exited" /\ ~sl_stdout_open
  \/ produced = MaxStream

(* The threads of the program are scheduled fairly, and ffmpeg exits once  *)
(* its input has ended.  Nothing else is assumed of the child processes,   *)
(* the clients or the operating system: while its input lasts ffmpeg may   *)
(* stay alive and silent for ever.                                         *)
FairSpec ==
  /\ Spec
  /\ WF_vars(MainStep)
  /\ WF_vars(ServerStep)
  /\ WF_vars(InputEnded /\ FfmpegExit)

TypeOK ==
  /\ pc \in {"main", "spawn_streamlink", "spawn_ffmpeg", "preload_init",
             "preload_test", "preload_read", "publish", "start_server",
             "spawn_player", "monitor", "cl_set", "cl_httpd", "cl_wait",
             "cl_ffmpeg", "cl_streamlink", "cl_potplayer", "returned"}
  /\ srv \in {"idle", "bind", "failed", "serving", "h_snapshot", "h_loop",
              "h_read", "stopped"}
  /\ rdpos <= produced /\ produced <= MaxStream
  /\ elapsed \in 0..PRELOAD_TIME
  /\ active \in 0..1
  /\ active = 1 <=> srv \in {"h_snapshot", "h_loop", "h_read"}

(* ============================== claims ================================= *)
NoChildRunning ==
  /\ streamlink_proc # "running"
  /\ ffmpeg_proc # "running"
  /\ potplayer_proc # "running"

(* the monitor loop is running and one of its exit conditions holds *)
MonitorTrigger ==
  /\ pc = "monitor"
  /\ shutdown_event \/ potplayer_proc = "exited" \/ ffmpeg_proc = "exited"

(* C1: whenever the monitor loop is running and a shutdown trigger occurs  *)
(* (player exit, transcoder exit, signal), cleanup() eventually returns    *)
(* and afterwards fetcher, transcoder and player are all non-running,      *)
(* whatever the relay is doing at that moment.                             *)
C1_ShutdownCompletes == MonitorTrigger ~> (cleaned /\ NoChildRunning)

InPreloadLoop == Alive /\ pc \in {"preload_test", "preload_read"}
InStreamingLoop == Alive /\ srv \in {"h_loop", "h_read"}

(* C2: once the shutdown signal is set, the preload fill loop and every    *)
(* relay streaming loop leave their loop; neither stays blocked forever in *)
(* a read or a write without re-checking the signal, also when the         *)
(* transcoder stays alive and silent.                                      *)
C2_LoopsObserveShutdown ==
  shutdown_event ~> (~InPreloadLoop /\ ~InStreamingLoop)

(* C3: after the shutdown signal has been set the relay server accepts no  *)
(* new connection: no do_GET begins in a state where the signal is set.    *)
C3_NoAcceptAfterShutdown ==
  [][conn_no' # conn_no => ~shutdown_event]_vars

IsStrictlyIncreasing(q) == \A i \in 1..(Len(q) - 1) : q[i] < q[i + 1]

(* q is the snapshot followed by a contiguous run of the stream that       *)
(* starts at or after the snapshot's end (right after it when first).      *)
IsSnapshotThenRun(q, snapshot, first) ==
  \E s \in Len(snapshot)..produced : \E k \in 0..(produced - s) :
     /\ q = snapshot \o Range(s, s + k)
     /\ (first /\ k > 0) => s = Len(snapshot)

(* C4: a response to '/' or '/audio.aac' is exactly the published preload  *)
(* snapshot followed by a contiguous in-order run of the transcoder's      *)
(* output beginning at or after the snapshot's end; no byte is delivered   *)
(* twice or out of order, and for the first connection the live part       *)
(* starts at the first byte not in the snapshot.  A response cut short     *)
(* because the client left before the snapshot was written is empty.       *)
C4_SnapshotThenLiveRun ==
  /\ (status = 200 /\ (srv \in {"h_loop", "h_read"} \/ h_result = "done"))
       => /\ IsSnapshotThenRun(body, audio_buffer, conn_no = 1)
          /\ IsStrictlyIncreasing(body)
  /\ (status = 200 /\ h_result = "client_gone")
       => \/ body = << >>
          \/ /\ IsSnapshotThenRun(body, audio_buffer, conn_no = 1)
             /\ IsStrictlyIncreasing(body)

(* a first connection that received the snapshot and live bytes after it *)
C4_Witness ==
  /\ status = 200 /\ conn_no = 1
  /\ audio_buffer # << >>
  /\ Len(body) > Len(audio_buffer)

(* a later connection whose live run starts beyond the snapshot's end *)
C4_WitnessLater ==
  /\ status = 200 /\ conn_no = 2
  /\ Len(body) > Len(audio_buffer)
  /\ body[Len(audio_buffer) + 1] > Len(audio_buffer) + 1

(* C5: no relay connection is accepted and no handler reads the            *)
(* PreloadBuffer before the fill has finished and published it; every      *)
(* handler's snapshot is the complete published buffer.                    *)
C5_PublishBeforeServe ==
  /\ (srv # "idle" \/ httpd # "None" \/ nconn > 0 \/ conn_no > 0)
       => (published /\ audio_buffer = preload_buffer)
  /\ (status = 200 /\ srv \in {"h_loop", "h_read"})
       => preload_data = audio_buffer

(* a handler holds a non-empty snapshot while streaming *)
C5_Witness ==
  /\ srv \in {"h_loop", "h_read"}
  /\ preload_data # << >>
  /\ preload_data = audio_buffer

(* C6: whatever time the fill is given (none included) and however the    *)
(* reads are chunked, the buffer published at the end of the fill is the   *)
(* in-order concatenation of exactly the bytes read from the transcoder's  *)
(* stdout during the fill: positions 1 .. rdpos, each once.                *)
C6_PublishedIsWhatWasRead ==
  (published /\ conn_no = 0 /\ srv \notin {"h_snapshot", "h_loop", "h_read"})
    => audio_buffer = Range(0, rdpos)

(* a fill of two reads, published *)
C6_Witness ==
  /\ published /\ conn_no = 0
  /\ Len(audio_buffer) = 3
  /\ rdpos = 3

(* a fill that was given no time publishes the empty buffer *)
C6_WitnessZero ==
  /\ published /\ conn_no = 0
  /\ audio_buffer = << >>
  /\ produced > 0

Reported(name) == report.msg # "" /\ report.exe = name

NoChildSpawned ==
  /\ streamlink_proc = "None"
  /\ ffmpeg_proc = "None"
  /\ potplayer_proc = "None"

(* C8: if any of the three required executables cannot be located in the  *)
(* search locations, main halts with a report naming that executable       *)
(* before any child process is spawned.                                    *)
C8_MissingDependencyHalts ==
  \A name \in Names :
    ~Locatable(env, name)
      => /\ NoChildSpawned
         /\ pc # "main" => (pc = "returned" /\ Reported(name))

SpawnFailed == report.msg \in {"pipeline start failed", "PotPlayer start failed"}

ServerDown == srv \in {"idle", "failed", "stopped"}

(* C9: if spawning a child fails after something was already started,      *)
(* everything already started is shut down before main returns: every      *)
(* running child is terminated and the server is stopped.                  *)
C9_SpawnFailureShutsDown ==
  (pc = "returned" /\ SpawnFailed) => (NoChildRunning /\ ServerDown)

(* C10: a signal delivered at any point after the pipeline was launched    *)
(* only sets the shutdown signal and the run then shuts down in order:     *)
(* main never returns while a fetcher or transcoder it spawned is running. *)
C10_SignalLeadsToOrderlyShutdown ==
  (pc = "returned" /\ shutdown_event /\ ffmpeg_proc # "None")
    => (streamlink_proc # "running" /\ ffmpeg_proc # "running")

(* C11: when a write to the client fails (connection reset, broken pipe)  *)
(* only that connection's handler ends: the shutdown signal and the        *)
(* server's stop request are untouched, no child process is terminated,    *)
(* the main thread stays where it is and the server thread is back in its  *)
(* accept loop, able to serve a later connection.                          *)
C11_ClientGoneEndsOnlyHandler ==
  [][(h_result # "client_gone" /\ h_result' = "client_gone")
       => /\ UNCHANGED << shutdown_event, shutdown_request, procVars, pc,
                          cleanVars, httpd >>
          /\ srv' = "serving"
          /\ active' = 0]_vars

(* a handler ended on a failed write while the session runs on, with the   *)
(* next connection waiting to be accepted                                  *)
C11_Witness ==
  /\ h_result = "client_gone"
  /\ pc = "monitor" /\ ~shutdown_event
  /\ ffmpeg_proc = "running" /\ potplayer_proc = "running"
  /\ srv = "serving" /\ backlog # << >>

InFill == pc \in {"preload_init", "preload_test", "preload_read", "publish"}

(* C12: at every instant at most one thread reads the transcoder's stdout: *)
(* no handler runs during the preload fill, and however many clients       *)
(* connect, also while a response is streaming, at most one handler runs.  *)
C12_SingleReader ==
  /\ active <= 1
  /\ InFill => active = 0
  /\ ~(pc = "preload_read" /\ srv = "h_read")

(* a client connects while another response is streaming *)
C12_Witness ==
  /\ srv = "h_read" /\ active = 1
  /\ backlog # << >>

(* C13: the player is spawned only after the relay server is confirmed to  *)
(* be listening: never while the server thread has not bound its port or   *)
(* has failed to start the server.                                         *)
C13_PlayerAfterListening ==
  potplayer_proc # "None" => (httpd = "bound" /\ srv \notin {"bind", "failed"})

(* main has returned and, if the player had been started, it returned      *)
(* through cleanup(), which left no child running                          *)
SessionOver ==
  /\ pc = "returned"
  /\ potplayer_proc # "None" => (cleaned /\ NoChildRunning)

C15_CleanupAfterSignalCompletes ==
  (pc = "cl_set" /\ shutdown_event) ~> cleaned

(* what one stage of the loop over procs leaves behind: a child that was   *)
(* running got terminate() first and is gone afterwards, a child that was  *)
(* not running (or was never started) is not touched                       *)
StageDone(before, after, f) ==
  IF before = "running"
    THEN after = "exited" /\ f \in {"graceful", "timeout_kill", "error_kill"}
    ELSE after = before /\ f = ""

(* C16: in cleanup each child that is still running is asked to terminate  *)
(* first and killed only when that did not end it; whatever fails while    *)
(* the server is stopped or a child is terminated or killed, cleanup goes  *)
(* on to the next child and returns only after the last one.               *)
C16_CleanupBestEffort ==
  [][/\ (pc = "cl_httpd" /\ pc' # pc) => pc' \in {"cl_wait", "cl_ffmpeg"}
     /\ (pc = "cl_wait" /\ pc' # pc) => pc' = "cl_ffmpeg"
     /\ (pc = "cl_ffmpeg" /\ pc' # pc)
          => /\ pc' = "cl_streamlink"
             /\ StageDone(ffmpeg_proc, ffmpeg_proc', fate')
     /\ (pc = "cl_streamlink" /\ pc' # pc)
          => /\ pc' = "cl_potplayer"
             /\ StageDone(streamlink_proc, streamlink_proc', fate')
     /\ (pc = "cl_potplayer" /\ pc' # pc)
          => /\ pc' = "returned" /\ cleaned'
             /\ StageDone(potplayer_proc, potplayer_proc', fate')
             /\ NoChildRunning']_vars

(* terminate() of streamlink raised, it was killed, and cleanup is at the  *)
(* player, which is still running                                          *)
C16_Witness ==
  /\ pc = "cl_potplayer"
  /\ fate = "error_kill"
  /\ streamlink_proc = "exited"
  /\ potplayer_proc = "running"

(* C17: audio_buffer is written only by the publish that ends the preload  *)
(* fill; once published no step of any thread changes it, and a handler's  *)
(* preload_data is the copy of it taken in the handler's locked block.     *)
C17_PreloadBufferFrozen ==
  [][/\ audio_buffer' # audio_buffer => (pc = "publish" /\ ~published)
     /\ published => (published' /\ audio_buffer' = audio_buffer)
     /\ (srv = "h_snapshot" /\ srv' # srv) => preload_data' = audio_buffer]_vars

(* the published preload after a handler has streamed past it and cleanup  *)
(* has begun                                                               *)
C17_Witness ==
  /\ published /\ audio_buffer # << >>
  /\ preload_data = audio_buffer
  /\ Len(body) > Len(audio_buffer)
  /\ pc = "cl_ffmpeg"

(* C18: once set, shutdown_event stays set in every later state.           *)
C18_ShutdownMonotonic ==
  [][shutdown_event => shutdown_event']_vars

(* a signal set the event, the monitor loop saw it, and cleanup set it     *)
(* again and has returned                                                  *)
C18_Witness ==
  /\ shutdown_event
  /\ cleaned /\ pc = "returned"
  /\ potplayer_proc = "exited" /\ fate # ""

(* C19: an empty read from ffmpeg's stdout does not end the response: the  *)
(* handler sleeps and tests the loop condition again, and it leaves the    *)
(* streaming loop only when shutdown_event is set, ffmpeg has exited or a  *)
(* write to the client fails.                                              *)
C19_EmptyReadRetries ==
  [][/\ (srv \in {"h_loop", "h_read"} /\ srv' \notin {"h_loop", "h_read"})
          => \/ shutdown_event
             \/ ffmpeg_proc # "running"
             \/ h_result' = "client_gone"
     /\ (srv = "h_read" /\ srv' # srv /\ rdpos' = rdpos)
          => /\ srv' = "h_loop"
             /\ body' = body
             /\ active' = active]_vars

(* after an empty read the handler is reading again: ffmpeg is alive, the  *)
(* client listens and no shutdown was asked for                            *)
C19_Witness ==
  /\ h_result = "retry"
  /\ srv = "h_read"
  /\ ffmpeg_proc = "running"
  /\ client_open /\ ~shutdown_event

(* C20: once shutdown_event is set main starts nothing new: the server     *)
(* thread is not started and the player is not spawned afterwards.         *)
C20_NothingStartedAfterShutdown ==
  [][shutdown_event
       => /\ srv = "idle" => srv' = "idle"
          /\ potplayer_proc = "None" => potplayer_proc' = "None"]_vars

=============================================================================
